---- MODULE Spec2Model ----
(***************************************************************************)
(* The hierarchical species suites of species.py (Species .. Species6).    *)
(*                                                                         *)
(* Numbers.  A weight is an exact rational <<num, den>> in lowest terms    *)
(* with den > 0; <<0, 0>> is numpy's nan (0/0) and <<1, 0>> is numpy's inf  *)
(* (x/0).  Floating-point rounding is not modelled; the underflow of       *)
(* exp() to 0.0 is (ExpRatio).                                             *)
(*                                                                         *)
(* Randomness.  numpy.random.gamma returns positive reals; a draw is a     *)
(* vector over GammaVals, chosen nondeterministically.  The draws that one *)
(* Update call makes take the same value g, so a likelihood estimate is    *)
(* (number of draws) * (likelihood under g).                               *)
(***************************************************************************)
EXTENDS Integers, Sequences, FiniteSets, TLC

VARIABLES
    variant,     \* the class whose constructor was called
    given,       \* the iterations argument of that call, 0 when it was omitted
    exists,      \* whether the constructor returned an object
    ns,          \* self.ns / the n of each hypothesis, in order
    iterations,  \* self.iterations, or NoAttr when the attribute was never set
    probs,       \* self.probs / the Suite's weight of each hypothesis
    params,      \* self.params of Species2, Species3, Species5 (shared array)
    hypos,       \* the Dirichlet objects of Species, Species4, Species6
    status,      \* how the last call ended: "ok" or the exception raised
    lastData,    \* the batch of the last Update
    calls,       \* number of Update calls so far
    draws,       \* Monte-Carlo draws accumulated for the last likelihood
                 \* estimate, 0 when none was completed
    zeroSum,     \* whether the weights summed to zero after being multiplied
                 \* by the likelihoods during the last Update
    steps        \* what the last Update of Species4 or Species5 did, in the
                 \* order it did it: one [op, m, arg] per statement group

vars == <<variant, given, exists, ns, iterations, probs, params, hypos,
          status, lastData, calls, draws, zeroSum, steps>>

-----------------------------------------------------------------------------
(* Bounds of the model *)

MaxUpdates == 2
MaxIterations == 2

(* Program constants *)

DefaultIterations == 1000
HardIterations == 1000

(* exp(t) is 0.0 in IEEE double for t < -745.14 *)
ExpUnderflowAt == 746

(* A count large enough that (p/q)^BigCount underflows for every p < q    *)
(* the model can form.                                                    *)
BigCount == 1000000

NoAttr == -1

GammaVals == {1, 2}

Flattened == {"Species2", "Species3", "Species5"}
PerN == {"Species", "Species4", "Species6"}
Variants == Flattened \cup PerN

NsChoices == {<<1>>, <<3>>, <<2, 3>>, <<1, 2, 3>>, <<1, 3>>}

(* The batches offered to the c-th Update call.  The reference batch of    *)
(* SimpleDirichletExample and HierarchicalExample goes to a fresh suite,   *)
(* as it does there.                                                       *)
Batches(c) ==
    {<< >>, <<1>>, <<2, 1>>, <<BigCount, 1>>}
        \cup (IF c = 0 THEN {<<3, 2, 1>>} ELSE {})

-----------------------------------------------------------------------------
(* Exact rationals with nan and inf *)

Min(a, b) == IF a <= b THEN a ELSE b
Abs(a) == IF a < 0 THEN -a ELSE a

RECURSIVE GCD(_, _)
GCD(a, b) == IF b = 0 THEN a ELSE GCD(b, a % b)

NaN == <<0, 0>>
Inf == <<1, 0>>
Zero == <<0, 1>>
One == <<1, 1>>

IsNaN(a) == a = NaN
IsInf(a) == a = Inf
IsFinite(a) == a[2] # 0

RNorm(n, d) ==
    IF d = 0 THEN (IF n = 0 THEN NaN ELSE Inf)
    ELSE LET g == GCD(Abs(n), Abs(d))
             s == IF d < 0 THEN -1 ELSE 1
         IN <<s * (n \div g), s * (d \div g)>>

R(n) == <<n, 1>>

RMul(a, b) ==
    IF IsNaN(a) \/ IsNaN(b) THEN NaN
    ELSE IF IsInf(a) \/ IsInf(b)
         THEN (IF a = Zero \/ b = Zero THEN NaN ELSE Inf)
    ELSE LET g1 == GCD(Abs(a[1]), b[2])
             g2 == GCD(Abs(b[1]), a[2])
         IN IF a[1] = 0 \/ b[1] = 0 THEN Zero
            ELSE RNorm((a[1] \div g1) * (b[1] \div g2),
                       (a[2] \div g2) * (b[2] \div g1))

RAdd(a, b) ==
    IF IsNaN(a) \/ IsNaN(b) THEN NaN
    ELSE IF IsInf(a) \/ IsInf(b) THEN Inf
    ELSE LET g == GCD(a[2], b[2])
             l == (a[2] \div g) * b[2]
         IN RNorm(a[1] * (l \div a[2]) + b[1] * (l \div b[2]), l)

RDiv(a, b) ==
    IF IsNaN(a) \/ IsNaN(b) THEN NaN
    ELSE IF IsInf(b) THEN (IF IsInf(a) THEN NaN ELSE Zero)
    ELSE IF IsInf(a) THEN Inf
    ELSE IF b[1] = 0 THEN (IF a[1] = 0 THEN NaN ELSE Inf)
    ELSE IF b[1] < 0 THEN RMul(a, <<-b[2], -b[1]>>)
    ELSE RMul(a, <<b[2], b[1]>>)

RECURSIVE RPow(_, _)
RPow(a, k) == IF k = 0 THEN One ELSE RMul(a, RPow(a, k - 1))

RPositive(a) == IsFinite(a) /\ a[1] > 0

RECURSIVE RSumTo(_, _)
RSumTo(v, k) == IF k = 0 THEN Zero ELSE RAdd(RSumTo(v, k - 1), v[k])

RSum(v) == RSumTo(v, Len(v))

RECURSIVE SumTo(_, _)
SumTo(s, k) == IF k = 0 THEN 0 ELSE SumTo(s, k - 1) + s[k]

Sum(s) == SumTo(s, Len(s))

-----------------------------------------------------------------------------
(* numpy and scipy *)

Ones(n) == [i \in 1..n |-> 1]

Take(s, m) == SubSeq(s, 1, Min(m, Len(s)))

CumSum(g) == [i \in 1..Len(g) |-> SumTo(g, i)]

GammaVecs(n) == [1..n -> GammaVals]

RECURSIVE BinomialCoef(_, _)
BinomialCoef(n, k) ==
    IF k > n THEN 0
    ELSE IF k = 0 \/ k = n THEN 1
    ELSE BinomialCoef(n - 1, k - 1) + BinomialCoef(n - 1, k)

(* exp(S*log(p) - S*log(q)) for 0 < p <= q: 1.0 when the logs are equal,   *)
(* 0.0 when the argument is below the underflow threshold (log(p/q) <=     *)
(* -1/q, so S > ExpUnderflowAt*q suffices), else the exact power.          *)
ExpRatio(p, q, S) ==
    IF p = q \/ S = 0 THEN One
    ELSE IF S > ExpUnderflowAt * q THEN Zero
    ELSE RPow(RNorm(p, q), S)

RECURSIVE GCDNums(_, _)
GCDNums(v, k) == IF k = 0 THEN 0 ELSE GCD(GCDNums(v, k - 1), Abs(v[k][1]))

RECURSIVE LCMDens(_, _)
LCMDens(v, k) ==
    IF k = 0 THEN 1
    ELSE LET l == LCMDens(v, k - 1) IN (l \div GCD(l, v[k][2])) * v[k][2]

(* integers proportional to the finite rationals of v, without a common    *)
(* factor                                                                  *)
Proportional(v) ==
    LET G == GCDNums(v, Len(v))
        H == GCDNums([j \in 1..Len(v) |-> <<v[j][2], 1>>], Len(v))
        d == [j \in 1..Len(v) |-> <<1, v[j][2] \div H>>]
        L == LCMDens(d, Len(v))
        w == [j \in 1..Len(v) |->
                (v[j][1] \div (IF G = 0 THEN 1 ELSE G)) * (L \div d[j][2])]
        g == GCDNums([j \in 1..Len(v) |-> <<w[j], 1>>], Len(v))
    IN [j \in 1..Len(v) |-> w[j] \div (IF g = 0 THEN 1 ELSE g)]

AllFinite(v) == \A j \in 1..Len(v) : IsFinite(v[j])

(* a *= b, elementwise *)
MulVec(a, b) == [j \in 1..Len(a) |-> RMul(a[j], b[j])]

(* integers proportional to a * b *)
ProportionalProduct(a, b) ==
    LET u == Proportional(a)
        l == Proportional(b)
    IN Proportional([j \in 1..Len(a) |-> <<u[j] * l[j], 1>>])

(* whether (a * b).sum() is 0.0 *)
ProductSumIsZero(a, b) ==
    AllFinite(a) /\ AllFinite(b) /\ Sum(ProportionalProduct(a, b)) = 0

(* a *= b; a /= a.sum().  numpy divides by zero without raising: 0/0 is    *)
(* nan and x/0 is inf.                                                     *)
MultiplyAndNormalize(a, b) ==
    IF AllFinite(a) /\ AllFinite(b)
    THEN LET w == ProportionalProduct(a, b)
         IN [j \in 1..Len(a) |-> RNorm(w[j], Sum(w))]
    ELSE LET v == MulVec(a, b)
             total == IF \E j \in 1..Len(v) : IsNaN(v[j]) THEN NaN ELSE Inf
         IN [j \in 1..Len(v) |-> RDiv(v[j], total)]

(* params[:m] += data raises ValueError when the slice is shorter than data *)
AddCountsFails(prm, data) == Len(prm) < Len(data)

(* params[:m] = data in place of params[:m] += data *)
AssignCounts(prm, data) ==
    [i \in 1..Len(prm) |-> IF i <= Len(data) THEN data[i] ELSE prm[i]]

AddCounts(prm, data) ==
    [i \in 1..Len(prm) |-> IF i <= Len(data) THEN prm[i] + data[i] ELSE prm[i]]

(* numpy.log(ps) * data broadcasts a row of length r against m counts *)
BroadcastFails(r, m) == r # m /\ r # 1

-----------------------------------------------------------------------------
(* Species2, Species3, Species5: one shared parameter array *)

(* index (into cols) of the largest log-likelihood: the smallest normaliser *)
ArgMax(cols, S) ==
    CHOOSE k \in 1..Len(cols) :
        \A j \in 1..Len(cols) : S = 0 \/ cols[k] <= cols[j]

Species2SampleLikelihood(data, g) ==
    LET m == Len(data)
        col == CumSum(g)
        cols == [j \in 1..Len(ns) |-> col[ns[j]]]
        S == Sum(data)
        k == ArgMax(cols, S)
    IN [j \in 1..Len(ns) |->
          RMul(ExpRatio(cols[k], cols[j], S), R(BinomialCoef(ns[j], m)))]

Species2Draws == HardIterations

Species2Update(data, g) ==
    LET m == Len(data)
    IN IF BroadcastFails(Len(Take(g, m)), m)
       THEN [probs |-> probs, params |-> params, draws |-> 0,
             zero |-> FALSE, status |-> "ValueError"]
       ELSE LET one == Species2SampleLikelihood(data, g)
                like == [j \in 1..Len(ns) |-> RMul(R(Species2Draws), one[j])]
                post == MultiplyAndNormalize(probs, like)
            IN IF AddCountsFails(params, data)
               THEN [probs |-> post, params |-> params,
                     draws |-> Species2Draws, zero |-> ProductSumIsZero(probs, like),
                     status |-> "ValueError"]
               ELSE [probs |-> post, params |-> AddCounts(params, data),
                     draws |-> Species2Draws, zero |-> ProductSumIsZero(probs, like),
                     status |-> "ok"]

(* numpy.cumsum(gammas)[self.ns[0]-1:] *)
SliceFromFirstN(col) == SubSeq(col, ns[1], Len(col))

(* likes *= coefs and likes += sample raise ValueError unless the sliced   *)
(* vector has one entry per candidate                                      *)
SliceMismatch(g) == Len(SliceFromFirstN(CumSum(g))) # Len(ns)

Species3SampleLikelihood(data, g) ==
    LET m == Len(data)
        cols == SliceFromFirstN(CumSum(g))
        S == Sum(data)
        k == ArgMax(cols, S)
    IN [j \in 1..Len(cols) |->
          RMul(ExpRatio(cols[k], cols[j], S), R(BinomialCoef(ns[j], m)))]

Species3Draws == iterations

Species3Update(data, g) ==
    LET m == Len(data)
    IN IF BroadcastFails(Len(Take(g, m)), m) \/ SliceMismatch(g)
       THEN [probs |-> probs, params |-> params, draws |-> 0,
             zero |-> FALSE, status |-> "ValueError"]
       ELSE LET one == Species3SampleLikelihood(data, g)
                like == [j \in 1..Len(ns) |-> RMul(R(Species3Draws), one[j])]
                post == MultiplyAndNormalize(probs, like)
            IN IF AddCountsFails(params, data)
               THEN [probs |-> post, params |-> params,
                     draws |-> Species3Draws, zero |-> ProductSumIsZero(probs, like),
                     status |-> "ValueError"]
               ELSE [probs |-> post, params |-> AddCounts(params, data),
                     draws |-> Species3Draws, zero |-> ProductSumIsZero(probs, like),
                     status |-> "ok"]

(* Species5.SampleLikelihood(m, count): likelihood of the m-th category's  *)
(* count for each entry of the sliced cumulative sum                       *)
Species5SampleLikelihood(m, count, g) ==
    LET sums == SliceFromFirstN(CumSum(g))
        k == ArgMax(sums, count)
    IN [j \in 1..Len(sums) |-> ExpRatio(sums[k], sums[j], count)]

(* n-m-1 in place of n-m+1 *)
UnseenSpeciesLessOne(n, m) == n - m - 1

(* the correction of UpdateOne: unseen_species = [n-m+1 for n in self.ns] *)
UnseenSpecies(n, m) == n - m + 1

Species5Likes(m, count, g) ==
    LET one == Species5SampleLikelihood(m, count, g)
    IN [j \in 1..Len(ns) |->
          RMul(RMul(R(iterations), one[j]), R(UnseenSpecies(ns[j], m)))]

Species5UpdateOne(prb, m, count, g) ==
    MultiplyAndNormalize(prb, Species5Likes(m, count, g))

(* one entry of steps: op is "sample" (numpy.random.gamma, arg the shape   *)
(* array passed to it), "correct" (arg the factor per candidate),          *)
(* "normalize" (weights multiplied and renormalized) or "add" (arg the     *)
(* count added to category m's parameter)                                  *)
Event(op, m, arg) == [op |-> op, m |-> m, arg |-> arg]

(* self.params[i] += data[i] placed before UpdateOne(i+1, data[i]) *)
Species5EventsAddFirst(i, count, prm) ==
    <<Event("add", i, count),
      Event("sample", i, [prm EXCEPT ![i] = @ + count]),
      Event("correct", i, [j \in 1..Len(ns) |-> ns[j] - i + 1]),
      Event("normalize", i, << >>)>>

(* the statements of one pass of the loop of Species5.Update, in order:    *)
(* UpdateOne(i+1, data[i]) samples from self.params, multiplies by         *)
(* unseen_species, multiplies into probs and renormalizes; then            *)
(* self.params[i] += data[i]                                               *)
Species5Events(i, count, prm) ==
    <<Event("sample", i, prm),
      Event("correct", i, [j \in 1..Len(ns) |-> UnseenSpecies(ns[j], i)]),
      Event("normalize", i, << >>),
      Event("add", i, count)>>

(* Species5.Update from category i on; st is the suite's state so far.     *)
(* gammas[m-1] raises IndexError when m exceeds the array's length.        *)
RECURSIVE Species5From(_, _, _, _)
Species5From(i, data, g, st) ==
    IF i > Len(data) THEN st
    ELSE IF i > Len(st.params)
         THEN [st EXCEPT !.status = "IndexError",
                         !.steps = Append(@, Event("sample", i, st.params))]
    ELSE IF SliceMismatch(g)
         THEN [st EXCEPT !.status = "ValueError",
                         !.steps = Append(@, Event("sample", i, st.params))]
    ELSE Species5From(i + 1, data, g,
            [probs |-> Species5UpdateOne(st.probs, i, data[i], g),
             params |-> [st.params EXCEPT ![i] = @ + data[i]],
             draws |-> iterations,
             zero |-> st.zero
                      \/ ProductSumIsZero(st.probs, Species5Likes(i, data[i], g)),
             status |-> "ok",
             steps |-> st.steps \o Species5Events(i, data[i], st.params)])

Species5Update(data, g) ==
    Species5From(1, data, g,
        [probs |-> probs, params |-> params, draws |-> 0, zero |-> FALSE,
         status |-> "ok", steps |-> << >>])

-----------------------------------------------------------------------------------------------------------------------------------------------------
(* thinkbayes.Dirichlet and thinkbayes.Suite, as Species, Species4 and     *)
(* Species6 use them.  A hypothesis is [n, params, peeks, weight]; peeks   *)
(* counts the Peek calls it received and weight is NaN until Peek sets it. *)

Dirichlet(n) == [n |-> n, params |-> Ones(n), peeks |-> 0, weight |-> NaN]

RECURSIVE DirichletLikelihoodTo(_, _, _, _)
DirichletLikelihoodTo(h, data, g, k) ==
    IF k = 0 THEN One
    ELSE RMul(DirichletLikelihoodTo(h, data, g, k - 1),
              ExpRatio(g[k], SumTo(g, h.n), data[k]))

(* one draw p = gammas / gammas.sum(); the product of p[i] ** data[i] *)
DirichletLikelihood(h, data, g) ==
    IF h.n < Len(data) THEN Zero
    ELSE DirichletLikelihoodTo(h, data, g, Len(data))

DirichletUpdateFails(h, data) == AddCountsFails(h.params, data)
DirichletUpdate(h, data) == [h EXCEPT !.params = AddCounts(h.params, data)]

(* Suite.Update after the likelihoods: Mult each weight, then Normalize,   *)
(* which fails on a zero total                                             *)
SuiteUpdate(prb, likes) ==
    IF ProductSumIsZero(prb, likes)
    THEN [probs |-> MulVec(prb, likes), status |-> "ValueError"]
    ELSE [probs |-> MultiplyAndNormalize(prb, likes), status |-> "ok"]

(* Species.Likelihood *)
SpeciesLikelihood(h, data, g) ==
    RMul(RMul(R(iterations), DirichletLikelihood(h, data, g)),
         R(BinomialCoef(h.n, Len(data))))

(* Species4.Likelihood: num_unseen = dirichlet.n - m + 1 *)
NumUnseen(n, m) == n - m + 1

Species4Likelihood(h, data, g) ==
    RMul(RMul(R(iterations), DirichletLikelihood(h, data, g)),
         R(NumUnseen(h.n, Len(data))))

(* for hypo in self.Values(): hypo.Update(data).  The order of Values() is *)
(* arbitrary: when some hypothesis is too short for the batch, upd is the  *)
(* set of hypotheses updated before the ValueError.                        *)
UpdateHypos(hs, data, upd) ==
    IF \E j \in 1..Len(hs) : DirichletUpdateFails(hs[j], data)
    THEN [hypos |-> [j \in 1..Len(hs) |->
                       IF j \in upd /\ ~DirichletUpdateFails(hs[j], data)
                       THEN DirichletUpdate(hs[j], data) ELSE hs[j]],
          status |-> "ValueError"]
    ELSE [hypos |-> [j \in 1..Len(hs) |-> DirichletUpdate(hs[j], data)],
          status |-> "ok"]

(* Species.Update(data) on state st; likes[j] is what self.Likelihood, as   *)
(* bound by the class, returns for hypothesis j                            *)
SpeciesUpdate(likes, st, data, upd) ==
    IF iterations = NoAttr
    THEN [st EXCEPT !.status = "AttributeError"]
    ELSE LET suite == SuiteUpdate(st.probs, likes)
             inner == UpdateHypos(st.hypos, data, upd)
         IN IF suite.status # "ok"
            THEN [probs |-> suite.probs, hypos |-> st.hypos,
                  draws |-> iterations, zero |-> TRUE, status |-> suite.status]
            ELSE [probs |-> suite.probs, hypos |-> inner.hypos,
                  draws |-> iterations, zero |-> st.zero, status |-> inner.status]

(* one = numpy.zeros(i+1); one[i] = data[i] *)
OneHot(i, count) == [k \in 1..i |-> IF k = i THEN count ELSE 0]

(* the statements of Species.Update(one) run by pass i of Species4.Update: *)
(* Likelihood samples from each hypothesis's own parameters and multiplies *)
(* by num_unseen, Suite.Update multiplies into the weights and normalizes  *)
(* (not reached past a zero total, which SpeciesUpdate reports as zero),   *)
(* then every hypo.Update(one) adds the                                    *)
(* count (recorded when all of them returned)                              *)
Species4Events(i, count, hs, normalized, added) ==
    <<Event("sample", i, [j \in 1..Len(hs) |-> hs[j].params]),
      Event("correct", i, [j \in 1..Len(hs) |-> NumUnseen(hs[j].n, i)])>>
    \o (IF normalized THEN <<Event("normalize", i, << >>)>> ELSE << >>)
    \o (IF normalized /\ added THEN <<Event("add", i, count)>> ELSE << >>)

(* the suite after pass i: r is what Species.Update(one) left of st *)
Species4Step(i, count, st, r) ==
    [probs |-> r.probs, hypos |-> r.hypos, draws |-> r.draws,
     zero |-> r.zero, status |-> r.status,
     steps |-> st.steps \o
         Species4Events(i, count, st.hypos, ~r.zero, r.status = "ok")]

RECURSIVE Species4From(_, _, _, _, _)
Species4From(i, data, g, upd, st) ==
    IF i > Len(data) \/ st.status # "ok" THEN st
    ELSE Species4From(i + 1, data, g, upd,
            Species4Step(i, data[i], st,
                SpeciesUpdate(
                    [j \in 1..Len(st.hypos) |->
                        Species4Likelihood(st.hypos[j], OneHot(i, data[i]), g)],
                    st, OneHot(i, data[i]), upd)))

Species4Update(data, g, upd) ==
    Species4From(1, data, g, upd,
        [probs |-> probs, hypos |-> hypos, draws |-> 0, zero |-> FALSE,
         status |-> "ok", steps |-> << >>])

(* OversampledDirichlet.Peek: TrimMarginals adds data to a copy of params  *)
(* (ValueError when the copy is shorter than data), then sets weight to    *)
(* the retained mass; self.params is not assigned.                         *)
PeekFails(h, data) == AddCountsFails(h.params, data)
Peek(h, data, mass) == [h EXCEPT !.peeks = @ + 1, !.weight = mass]

InclusionMasses == {<<1, 2>>, One}

PeekAll(hs, data, mass, upd) ==
    IF \E j \in 1..Len(hs) : PeekFails(hs[j], data)
    THEN [hypos |-> [j \in 1..Len(hs) |->
                       IF j \in upd /\ ~PeekFails(hs[j], data)
                       THEN Peek(hs[j], data, mass) ELSE hs[j]],
          status |-> "ValueError"]
    ELSE [hypos |-> [j \in 1..Len(hs) |-> Peek(hs[j], data, mass)],
          status |-> "ok"]

(* OversampledDirichlet.Likelihood *)
OversampledLikelihood(h, data, g) == RMul(DirichletLikelihood(h, data, g), h.weight)

(* Species6 inherits Species.Likelihood, which calls hypo.Likelihood *)
Species6Likelihood(h, data, g) ==
    RMul(RMul(R(iterations), OversampledLikelihood(h, data, g)),
         R(BinomialCoef(h.n, Len(data))))

Species6Update(data, g, mass, upd) ==
    LET peeked == PeekAll(hypos, data, mass, upd)
    IN IF peeked.status # "ok"
       THEN [probs |-> probs, hypos |-> peeked.hypos, draws |-> 0,
             zero |-> FALSE, status |-> peeked.status]
       ELSE SpeciesUpdate(
                [j \in 1..Len(hypos) |->
                    Species6Likelihood(peeked.hypos[j], data, g)],
                [probs |-> probs, hypos |-> peeked.hypos, draws |-> 0,
                 zero |-> FALSE, status |-> "ok"],
                data, upd)

-----------------------------------------------------------------------------
(* Construction *)

(* Species2.__init__(self, ns, iterations=1000) *)
FlatInit(v, n, it) ==
    /\ variant = v /\ given = it /\ exists = TRUE
    /\ ns = n
    /\ iterations = (IF it = 0 THEN DefaultIterations ELSE it)
    /\ probs = [j \in 1..Len(n) |-> One]
    /\ params = Ones(n[Len(n)])
    /\ hypos = << >>
    /\ status = "ok"

(* thinkbayes.Suite.__init__(hypos): equal weights, normalized *)
SuiteInit(n) == [j \in 1..Len(n) |-> RNorm(1, Len(n))]

(* Species.__init__(self, ns, iterations=1000) *)
SpeciesInit(v, n, it) ==
    /\ variant = v /\ given = it /\ exists = TRUE
    /\ ns = n
    /\ iterations = (IF it = 0 THEN DefaultIterations ELSE it)
    /\ probs = SuiteInit(n)
    /\ params = << >>
    /\ hypos = [j \in 1..Len(n) |-> Dirichlet(n[j])]
    /\ status = "ok"

(* Species6.__init__(self, ns): a second argument is a TypeError, and no   *)
(* iterations attribute is set                                             *)
Species6Init(n, it) ==
    /\ variant = "Species6" /\ given = it /\ exists = (it = 0)
    /\ ns = n
    /\ iterations = NoAttr
    /\ probs = SuiteInit(n)
    /\ params = << >>
    /\ hypos = [j \in 1..Len(n) |-> Dirichlet(n[j])]
    /\ status = (IF it = 0 THEN "ok" ELSE "TypeError")

IterationChoices == {0, MaxIterations}

Init ==
    /\ \E n \in NsChoices, it \in IterationChoices :
          \/ \E v \in Flattened : FlatInit(v, n, it)
          \/ \E v \in {"Species", "Species4"} : SpeciesInit(v, n, it)
          \/ Species6Init(n, it)
    /\ lastData = << >>
    /\ calls = 0
    /\ draws = 0
    /\ zeroSum = FALSE
    /\ steps = << >>

CanCall == exists /\ calls < MaxUpdates

Called(data) ==
    /\ lastData' = data
    /\ calls' = calls + 1
    /\ UNCHANGED <<variant, given, exists, ns, iterations>>

ApplyFlat(data, r) ==
    /\ probs' = r.probs
    /\ params' = r.params
    /\ status' = r.status
    /\ draws' = r.draws
    /\ zeroSum' = r.zero
    /\ steps' = (IF "steps" \in DOMAIN r THEN r.steps ELSE << >>)
    /\ UNCHANGED hypos
    /\ Called(data)

ApplyPerN(data, r) ==
    /\ probs' = r.probs
    /\ hypos' = r.hypos
    /\ status' = r.status
    /\ draws' = r.draws
    /\ zeroSum' = r.zero
    /\ steps' = (IF "steps" \in DOMAIN r THEN r.steps ELSE << >>)
    /\ UNCHANGED params
    /\ Called(data)

MaxN == ns[Len(ns)]

(* which hypotheses were handled before a ValueError, when one can occur *)
PartialChoices(data) ==
    IF Len(data) > ns[1] THEN SUBSET {j \in 1..Len(ns) : ns[j] >= ns[1] + 1}
    ELSE {{}}

UpdateSpecies ==
    /\ CanCall /\ variant = "Species"
    /\ \E data \in Batches(calls), g \in GammaVecs(MaxN) :
        \E upd \in PartialChoices(data) :
          ApplyPerN(data, SpeciesUpdate(
              [j \in 1..Len(hypos) |-> SpeciesLikelihood(hypos[j], data, g)],
              [probs |-> probs, hypos |-> hypos, draws |-> 0, zero |-> FALSE,
               status |-> "ok"],
              data, upd))

UpdateSpecies2 ==
    /\ CanCall /\ variant = "Species2"
    /\ \E data \in Batches(calls), g \in GammaVecs(Len(params)) :
          ApplyFlat(data, Species2Update(data, g))

UpdateSpecies3 ==
    /\ CanCall /\ variant = "Species3"
    /\ \E data \in Batches(calls), g \in GammaVecs(Len(params)) :
          ApplyFlat(data, Species3Update(data, g))

UpdateSpecies4 ==
    /\ CanCall /\ variant = "Species4"
    /\ \E data \in Batches(calls), g \in GammaVecs(MaxN) :
        \E upd \in PartialChoices(data) :
          ApplyPerN(data, Species4Update(data, g, upd))

UpdateSpecies5 ==
    /\ CanCall /\ variant = "Species5"
    /\ \E data \in Batches(calls), g \in GammaVecs(Len(params)) :
          ApplyFlat(data, Species5Update(data, g))

UpdateSpecies6 ==
    /\ CanCall /\ variant = "Species6"
    /\ \E data \in Batches(calls), g \in GammaVecs(MaxN), mass \in InclusionMasses :
        \E upd \in PartialChoices(data) :
          ApplyPerN(data, Species6Update(data, g, mass, upd))

Next ==
    \/ UpdateSpecies
    \/ UpdateSpecies2
    \/ UpdateSpecies3
    \/ UpdateSpecies4
    \/ UpdateSpecies5
    \/ UpdateSpecies6

Spec == Init /\ [][Next]_vars

-----------------------------------------------------------------------------
(* The posterior the per-N model estimates: Species.Update with every      *)
(* Monte-Carlo sum replaced by its expectation over the Gamma draws.       *)

RECURSIVE RisingFactorial(_, _)
RisingFactorial(a, k) == IF k = 0 THEN 1 ELSE RisingFactorial(a, k - 1) * (a + k - 1)

RECURSIVE RisingProductTo(_, _, _)
RisingProductTo(prm, data, k) ==
    IF k = 0 THEN 1
    ELSE RisingProductTo(prm, data, k - 1) * RisingFactorial(prm[k], data[k])

(* E[prod p[i] ** data[i]] for p ~ Dirichlet(params), params integral:     *)
(* prod_i (params[i] rising data[i]) / (sum(params) rising sum(data))      *)
ExpectedDirichletLikelihood(h, data) ==
    IF h.n < Len(data) THEN Zero
    ELSE RNorm(RisingProductTo(h.params, data, Len(data)),
               RisingFactorial(Sum(h.params), Sum(data)))

(* the expected sum of the draws without the BinomialCoef(n, m) factor     *)
ExpectedLikelihoodUncorrected(h, data, g) ==
    RMul(R(iterations), ExpectedDirichletLikelihood(h, data))

(* the expectation of Species.Likelihood: the sum of `iterations` draws,   *)
(* times BinomialCoef(n, m)                                                *)
ExpectedSpeciesLikelihood(h, data, g) ==
    RMul(RMul(R(iterations), ExpectedDirichletLikelihood(h, data)),
         R(BinomialCoef(h.n, Len(data))))

MaxCandidate == 8

(* ns = range(3, k+1) *)
RangeFromThree(k) == [j \in 1..(k - 2) |-> j + 2]

ExpectedBatches ==
    {<< >>, <<1>>, <<1, 1>>, <<2, 1>>, <<1, 1, 1>>, <<2, 2, 1>>, <<3, 2, 1>>}

ExpectedIterations == {0} \cup 1..MaxIterations

InitExpected ==
    /\ \E k \in 3..MaxCandidate, it \in ExpectedIterations :
          SpeciesInit("Species", RangeFromThree(k), it)
    /\ lastData = << >>
    /\ calls = 0
    /\ draws = 0
    /\ zeroSum = FALSE
    /\ steps = << >>

(* HierarchicalExample constructs the suite and calls Update once *)
ExpectedUpdate ==
    /\ exists /\ calls = 0
    /\ \E data \in ExpectedBatches :
          ApplyPerN(data, SpeciesUpdate(
              [j \in 1..Len(hypos) |->
                  ExpectedSpeciesLikelihood(hypos[j], data, << >>)],
              [probs |-> probs, hypos |-> hypos, draws |-> 0, zero |-> FALSE,
               status |-> "ok"],
              data, {}))

NextExpected == ExpectedUpdate

SpecExpected == InitExpected /\ [][NextExpected]_vars

-----------------------------------------------------------------------------
(* Queries *)

(* thinkbayes.Pmf.Normalize on the weights of a mapping *)
Normalized(v) ==
    IF AllFinite(v)
    THEN LET w == Proportional(v) IN [j \in 1..Len(v) |-> RNorm(w[j], Sum(w))]
    ELSE [j \in 1..Len(v) |-> NaN]

(* DistOfN(): the weight of each candidate, in the order of ns.            *)
(* Species.DistOfN copies the Suite's weights; Species2.DistOfN passes     *)
(* zip(ns, probs) to thinkbayes.MakePmfFromDict, which normalizes.         *)
DistOfN == IF variant \in Flattened THEN Normalized(probs) ELSE probs

DistOfNTotal == RSum(DistOfN)

(* the methods each class body defines *)
OwnMethods(c) ==
    CASE c = "Species" -> {"__init__", "Update", "Likelihood", "DistOfN"}
      [] c = "Species2" -> {"__init__", "Update", "SampleLikelihood", "DistOfN",
                            "MarginalBeta", "DistOfPrevalence"}
      [] c = "Species3" -> {"Update", "SampleLikelihood"}
      [] c = "Species4" -> {"Update", "Likelihood"}
      [] c = "Species5" -> {"Update", "UpdateOne", "SampleLikelihood"}
      [] c = "Species6" -> {"__init__", "Update"}
      [] OTHER -> {}

(* the operations of thinkbayes.Suite (a ProbabilityMass) *)
SuiteMethods ==
    {"Set", "Increment", "Remove", "Multiply", "Normalize", "Values", "Items",
     "Percentile", "Update"}

BaseClass(c) ==
    CASE c \in {"Species3", "Species5"} -> "Species2"
      [] c \in {"Species4", "Species6"} -> "Species"
      [] c = "Species" -> "Suite"
      [] OTHER -> "object"

Methods(c) ==
    LET b == BaseClass(c)
        bb == BaseClass(b)
    IN OwnMethods(c) \cup OwnMethods(b)
         \cup (IF b = "Suite" \/ bb = "Suite" THEN SuiteMethods ELSE {})

(* Beta(alpha, alpha0) in place of Beta(alpha, alpha0-alpha) *)
MarginalBetaNoSubtract(n, index) ==
    <<params[index], Sum(Take(params, n))>>

(* Species2.MarginalBeta(n, index): the shape pair of the Beta; index is    *)
(* 1-based here                                                            *)
MarginalBeta(n, index) ==
    LET alpha0 == Sum(Take(params, n))
        alpha == params[index]
    IN <<alpha, alpha0 - alpha>>

(* thinkbayes.Dirichlet.MarginalBeta(i) *)
DirichletMarginalBeta(h, index) ==
    <<h.params[index], Sum(h.params) - h.params[index]>>

(* Species2.DistOfPrevalence(index): the components of the mixture, one    *)
(* Beta per candidate n with its weight                                    *)
DistOfPrevalence(index) ==
    [j \in 1..Len(ns) |-> [beta |-> MarginalBeta(ns[j], index), prob |-> probs[j]]]

Returned == exists /\ calls > 0 /\ status = "ok"

Infeasible(data) == \E j \in 1..Len(ns) : ns[j] < Len(data)

-----------------------------------------------------------------------------
(* Properties *)

(* C1: for every variant and every sequence of Update calls that return    *)
(* (the empty sequence and empty batches included), the weights of         *)
(* DistOfN() sum to 1.                                                     *)
C1_DistOfNSumsToOne ==
    (exists /\ status = "ok") => DistOfNTotal = One

RejectedUnchanged ==
    (calls' = calls + 1 /\ Infeasible(lastData'))
        => (status' # "ok" /\ probs' = probs /\ params' = params
            /\ hypos' = hypos)

(* C2: a batch with more categories than some candidate N is rejected with *)
(* an error before any outer weight or concentration parameter changes.    *)
C2_InfeasibleRangeRejected == [][RejectedUnchanged]_vars

(* C3: an Update in which the outer weights sum to zero after being        *)
(* multiplied by the likelihoods ends in an error, it does not return.     *)
C3_ZeroSumSurfaced ==
    (calls > 0 /\ zeroSum) => status # "ok"

(* C4: every variant exposes Update, DistOfN and DistOfPrevalence.         *)
C4_AllOperationsExposed ==
    exists => {"Update", "DistOfN", "DistOfPrevalence"} \subseteq Methods(variant)

Reference == <<3, 2, 1>>

ThreeCategoryUpdated ==
    /\ variant \in Flattened /\ ns = <<3>>
    /\ calls = 1 /\ lastData = Reference /\ status = "ok"

(* C5 as stated: after the flat 3-category model is updated with [3,2,1],  *)
(* the marginal of coordinate i is Beta(1+data[i], 1+sum(data)-data[i]).   *)
C5_MarginalAsStated ==
    ThreeCategoryUpdated =>
        \A i \in 1..3 :
            MarginalBeta(3, i) = <<1 + Reference[i], 1 + Sum(Reference) - Reference[i]>>

(* C5 amended: the marginal of coordinate i is                             *)
(* Beta(1+data[i], 2+sum(data)-data[i]): the other two categories each     *)
(* contribute their prior 1.                                               *)
C5_MarginalBeta ==
    ThreeCategoryUpdated =>
        \A i \in 1..3 :
            MarginalBeta(3, i) = <<1 + Reference[i], 2 + Sum(Reference) - Reference[i]>>

C5_Witness == ThreeCategoryUpdated /\ MarginalBeta(3, 1) = <<4, 5>>

RLeq(a, b) == a[1] * b[2] <= b[1] * a[2]

ReferenceFromThree ==
    /\ variant = "Species" /\ ns[1] = 3
    /\ calls = 1 /\ lastData = Reference /\ status = "ok"

(* C6 as stated: for data [3,2,1] and candidates from N=3 up, the          *)
(* posterior of the per-N model (expected likelihood times C(N, m), from a *)
(* uniform prior) weighs N=3 at least as much as every other candidate.    *)
C6_ModeAtThree ==
    ReferenceFromThree => \A j \in 1..Len(ns) : RLeq(DistOfN[j], DistOfN[1])

(* C6 amended: when the candidates include N=4, the mode is at N=4 (tied   *)
(* with N=5 when it is a candidate) and N=3 weighs strictly less.          *)
C6_ModeAtFour ==
    (ReferenceFromThree /\ Len(ns) >= 2) =>
        /\ \A j \in 1..Len(ns) : RLeq(DistOfN[j], DistOfN[2])
        /\ ~RLeq(DistOfN[2], DistOfN[1])
        /\ Len(ns) >= 3 => DistOfN[3] = DistOfN[2]

C6_Witness ==
    /\ ReferenceFromThree /\ Len(ns) = MaxCandidate - 2
    /\ DistOfNTotal = One /\ RLeq(DistOfN[1], DistOfN[2])

IncrementalOnce ==
    /\ variant \in {"Species4", "Species5"} /\ ns = <<1, 2, 3>>
    /\ calls = 1 /\ lastData = <<1>>

(* C7: for data [1] and candidates {1,2,3}, one Update of the incremental  *)
(* variant returns a posterior with positive weight on N=2 and on N=3 and  *)
(* no weight on any N below 1.                                             *)
C7_RoomForUnseen ==
    IncrementalOnce =>
        /\ status = "ok"
        /\ RPositive(DistOfN[2]) /\ RPositive(DistOfN[3])
        /\ \A j \in 1..Len(ns) : ns[j] < 1 => DistOfN[j] = Zero

C7_Witness == IncrementalOnce /\ variant = "Species5" /\ DistOfNTotal = One

(* C8: the draws accumulated for a likelihood estimate are as many as the  *)
(* iteration count the suite was constructed with, and every variant       *)
(* accepts that count at construction.                                     *)
C8_DrawsAreIterations ==
    /\ given # 0 => exists
    /\ (exists /\ draws > 0) =>
          draws = (IF given = 0 THEN DefaultIterations ELSE given)

ParamsKept ==
    variant \in Flattened =>
        /\ Len(params') = Len(params)
        /\ \A i \in 1..Len(params) : params'[i] >= params[i]

(* C9: in Species2, Species3 and Species5 every entry of the shared array  *)
(* is at least 1, no entry decreases in an Update, and the length is kept. *)
C9_ParamsMonotone ==
    /\ [](variant \in Flattened => \A i \in 1..Len(params) : params[i] >= 1)
    /\ [][ParamsKept]_vars

C9_Witness ==
    /\ variant \in Flattened /\ status = "ok" /\ calls = 2
    /\ \E i \in 1..Len(params) : params[i] > 2

PeekedThenUpdated ==
    (variant = "Species6" /\ calls' = calls + 1 /\ ~Infeasible(lastData'))
        => /\ status' = "ok"
           /\ \A j \in 1..Len(ns) :
                 /\ hypos'[j].peeks = hypos[j].peeks + 1
                 /\ hypos'[j].params = AddCounts(hypos[j].params, lastData')

(* C10: one Update of Species6 peeks every model exactly once, then        *)
(* multiplies and renormalizes the outer weights, then adds the batch to   *)
(* every model's parameters.                                               *)
C10_PeekThenUpdate == [][PeekedThenUpdated]_vars

Incremental == {"Species4", "Species5"}

(* the parameters in force before this call, with the counts of the first  *)
(* k categories of batch d added                                           *)
ParamsAfterFirst(k, d) ==
    IF variant = "Species5" THEN AddCounts(params, Take(d, k))
    ELSE [j \in 1..Len(hypos) |-> AddCounts(hypos[j].params, Take(d, k))]

StepsInOrder ==
    (variant \in Incremental /\ calls' = calls + 1) =>
        LET d == lastData'
            e == steps'
        IN /\ status' = "ok" => Len(e) = 4 * Len(d)
           /\ \A k \in 1..Len(e) :
                 LET m == ((k - 1) \div 4) + 1
                     r == (k - 1) % 4
                 IN /\ e[k].m = m
                    /\ r = 0 => /\ e[k].op = "sample"
                                /\ e[k].arg = ParamsAfterFirst(m - 1, d)
                    /\ r = 1 => /\ e[k].op = "correct"
                                /\ e[k].arg = [j \in 1..Len(ns) |-> ns[j] - m + 1]
                    /\ r = 2 => e[k].op = "normalize"
                    /\ r = 3 => e[k].op = "add" /\ e[k].arg = d[m]
           /\ status' = "ok" =>
                 IF variant = "Species5" THEN params' = ParamsAfterFirst(Len(d), d)
                 ELSE [j \in 1..Len(hypos) |-> hypos'[j].params]
                          = ParamsAfterFirst(Len(d), d)

(* C11: an incremental Update takes the categories in index order; step m  *)
(* samples with parameters that hold only categories 1..m-1 of the batch,  *)
(* multiplies candidate N's likelihood by N-m+1, multiplies into the       *)
(* weights and renormalizes, and only then adds category m's count.        *)
C11_StepOrder == [][StepsInOrder]_vars

C11_Witness ==
    /\ variant = "Species5" /\ ns = <<1, 2, 3>> /\ status = "ok"
    /\ calls = 1 /\ lastData = <<2, 1>> /\ Len(steps) = 8
    /\ steps[5] = Event("sample", 2, <<3, 1, 1>>)
    /\ steps[6] = Event("correct", 2, <<0, 1, 2>>)
    /\ steps[8] = Event("add", 2, 1)

Sliced == {"Species3", "Species5"}

(* C12: in Species3 and Species5, for any ordered candidate range, the     *)
(* normalizing sum used for candidate N is the sum of the first N entries  *)
(* of the Gamma draw, and the likelihood vector has one entry per          *)
(* candidate, equal to what Species2.SampleLikelihood computes from the    *)
(* same draw; so an Update with a feasible batch returns.                  *)
C12_SliceMatchesLoop ==
    (variant \in Sliced /\ calls > 0 /\ lastData # << >> /\ ~Infeasible(lastData))
        => /\ status = "ok"
           /\ \A g \in GammaVecs(Len(params)) :
                 LET sums == SliceFromFirstN(CumSum(g))
                 IN /\ Len(sums) = Len(ns)
                    /\ \A j \in 1..Len(ns) : sums[j] = SumTo(g, ns[j])
                    /\ Species3SampleLikelihood(lastData, g)
                          = Species2SampleLikelihood(lastData, g)

IncrementalAsBatch ==
    (variant \in Sliced /\ calls' = calls + 1 /\ Len(lastData') <= Len(params))
        => /\ params' = AddCounts(params, lastData')
           /\ \A g \in GammaVecs(Len(params)) :
                 Species5Update(lastData', g).params
                     = Species3Update(lastData', g).params

(* C13: for a batch no longer than the shared array, Species5.Update and   *)
(* Species3.Update leave the same array: the first m entries increased by  *)
(* the counts, the entries from index m on unchanged.                      *)
C13_IncrementalAsBatch == [][IncrementalAsBatch]_vars

====
